---- MODULE Spec2Model ----
(***************************************************************************)
(* The ride lifecycle, driver availability, attendance ledger and odometer *)
(* ledger of backend/main.py, as a state machine over the rows of the      *)
(* tables declared in backend/database.py.                                 *)
(*                                                                         *)
(* Rows are kept in insertion order; a row's id (a uuid4 in the code) is   *)
(* its position.  A nullable column holds None (<<>>) or Some(v) (<<v>>).  *)
(* A DateTime column holds None or Some(utcnow): the clock's value is not  *)
(* modelled, only whether the column was stamped.  Columns no handler      *)
(* reads and that carry no relation between rows (addresses, coordinates,  *)
(* vehicle data, estimated/actual duration, last_status_change) are left   *)
(* out of the rows.                                                        *)
(*                                                                         *)
(* Spec handles one request at a time: every handler runs from its first   *)
(* query to db.commit() with no other request in between.  ConcSpec lets   *)
(* two thread-pool workers interleave: a handler's queries and its commit  *)
(* are separate steps, as nothing in the code locks a row.                 *)
(***************************************************************************)
EXTENDS Integers, Sequences, FiniteSets, TLC

VARIABLES
    drivers,      \* drivers table: driver id -> row
    rides,        \* rides table, in insertion order
    km_entries,   \* kilometer_entries table, in insertion order
    attendance,   \* driver_attendance table, in insertion order
    leave_requests, \* leave_requests table, in insertion order
    resp,         \* the response to the last request
    budget,       \* number of requests still to be received
    sess          \* per worker: the SQLAlchemy session of the request it is handling

vars == <<drivers, rides, km_entries, attendance, leave_requests, resp, budget, sess>>

tables == <<drivers, rides, km_entries, attendance, leave_requests>>

----------------------------------------------------------------------------
(* Bounds *)

\* Requests handled in a behaviour of Spec.
MaxRequests == 4

\* Requests received in a behaviour of ConcSpec.
MaxConcRequests == 5

\* Requests handled in a behaviour of LeaveSpec.
MaxLeaveRequests == 4

----------------------------------------------------------------------------
(* Values *)

None == <<>>

Some(v) == <<v>>

\* datetime.utcnow(), as stored in a DateTime column
utcnow == "utcnow"

\* The driver created at startup and the one POST /drivers can add.
SeedDriver == "d1"

DriverIds == {"d1", "d2"}

\* users.id of a driver's user row (created together with the driver row)
UserOf(d) == IF d = "d1" THEN "u1" ELSE "u2"

\* The passenger created at startup; "p9" is the id of no passenger.
PassengerIds == {"p1"}

PassengerInputs == {"p1", "p9"}

\* Odometer readings a request may carry.
KmInputs == {100, 150}

SeedTotalRides == 1250

SeedKmReading == 45230

RideStatus == {"requested", "assigned", "accepted", "picking_up",
               "in_progress", "completed", "cancelled"}

Workers == {"w1", "w2"}

NoSession == [pc |-> "idle"]

\* HTTPException(status_code, detail), or the 200 of a returned body
Response(op, code, detail) == [op |-> op, code |-> code, detail |-> detail]

----------------------------------------------------------------------------
(* Rows *)

\* A stamp in drivers.last_status_change is the number of the request that
\* wrote it: the requests still to be received when it arrived.  The rows
\* inserted at startup carry StartupTime.
StartupTime == 0

DBDriver(d, total_rides, km) ==
    [user_id |-> UserOf(d), total_rides |-> total_rides, is_online |-> FALSE,
     current_km_reading |-> km, last_status_change |-> StartupTime]

DBRide(passenger_id, driver_id, status, assigned_at) ==
    [passenger_id |-> passenger_id, driver_id |-> driver_id, status |-> status,
     assigned_at |-> assigned_at, accepted_at |-> None, picked_up_at |-> None,
     completed_at |-> None, cancelled_at |-> None, distance |-> 0]

DBKilometerEntry(driver_id, start_km, ride_id) ==
    [driver_id |-> driver_id, start_km |-> start_km, end_km |-> None,
     ride_id |-> ride_id, status |-> "started"]

DBDriverAttendance(driver_id) ==
    [driver_id |-> driver_id, end_time |-> None, status |-> "active"]

\* ids of the rows of a table kept as a sequence
Ids(table) == 1..Len(table)

\* ids a request may name: those of the rows, and 0, the id of no row
IdInputs(table) == 0..Len(table)

\* db.query(DBDriver).filter(DBDriver.user_id == current_user.id)
DriversOfUser(u) == {d \in DOMAIN drivers : drivers[d].user_id = u}

\* users that hold a driver's token
DriverUsers == {drivers[d].user_id : d \in DOMAIN drivers}

----------------------------------------------------------------------------
(* Startup *)

startup_event ==
    /\ drivers = [d \in {SeedDriver} |-> DBDriver(d, SeedTotalRides, SeedKmReading)]
    /\ rides = <<>>
    /\ km_entries = <<>>
    /\ attendance = <<>>
    /\ leave_requests = <<>>

Init ==
    /\ startup_event
    /\ resp = Response("startup", 200, "")
    /\ budget = MaxRequests
    /\ sess = [w \in Workers |-> NoSession]

----------------------------------------------------------------------------
(* Handlers, one request at a time *)

\* the request is answered with an HTTPException and nothing is committed
Reject(op, code, detail) ==
    /\ resp' = Response(op, code, detail)
    /\ UNCHANGED tables

\* a request arrives and is handled from its first query to its commit
ReceiveRequest ==
    /\ budget > 0
    /\ budget' = budget - 1
    /\ UNCHANGED sess

\* a request to a handler that has no query on leave_requests
Receive ==
    /\ ReceiveRequest
    /\ UNCHANGED leave_requests

create_driver(d) ==
    /\ Receive
    /\ d \notin DOMAIN drivers
    /\ drivers' = [x \in DOMAIN drivers \cup {d} |->
                     IF x = d
                     THEN [DBDriver(d, 0, 0) EXCEPT !.last_status_change = budget]
                     ELSE drivers[x]]
    /\ resp' = Response("create_driver", 200, "")
    /\ UNCHANGED <<rides, km_entries, attendance>>

create_ride(passenger_id) ==
    /\ Receive
    /\ rides' = Append(rides, DBRide(passenger_id, None, "requested", None))
    /\ resp' = Response("create_ride", 200, "")
    /\ UNCHANGED <<drivers, km_entries, attendance>>

\* update_ride_status stamping completed_at on a cancellation too
update_ride_status_stamping_completed(ride_id, status) ==
    /\ Receive
    /\ IF ride_id \notin Ids(rides)
       THEN Reject("update_ride_status", 404, "Ride not found")
       ELSE /\ rides' = [rides EXCEPT ![ride_id] =
                  [@ EXCEPT !.status = status,
                            !.accepted_at = IF status = "accepted" THEN Some(utcnow) ELSE @,
                            !.picked_up_at = IF status \in {"picking_up", "in_progress"}
                                             THEN Some(utcnow) ELSE @,
                            !.completed_at = IF status \in {"completed", "cancelled"}
                                             THEN Some(utcnow) ELSE @,
                            !.cancelled_at = IF status = "cancelled" THEN Some(utcnow) ELSE @]]
            /\ resp' = Response("update_ride_status", 200, "Ride status updated successfully")
            /\ UNCHANGED <<drivers, km_entries, attendance>>

update_ride_status(ride_id, status) ==
    /\ Receive
    /\ IF ride_id \notin Ids(rides)
       THEN Reject("update_ride_status", 404, "Ride not found")
       ELSE /\ rides' = [rides EXCEPT ![ride_id] =
                  [@ EXCEPT !.status = status,
                            !.accepted_at = IF status = "accepted" THEN Some(utcnow) ELSE @,
                            !.picked_up_at = IF status \in {"picking_up", "in_progress"}
                                             THEN Some(utcnow) ELSE @,
                            !.completed_at = IF status = "completed" THEN Some(utcnow) ELSE @,
                            !.cancelled_at = IF status = "cancelled" THEN Some(utcnow) ELSE @]]
            /\ resp' = Response("update_ride_status", 200, "Ride status updated successfully")
            /\ UNCHANGED <<drivers, km_entries, attendance>>

\* assign_ride_to_driver without its check of driver.is_online
assign_ride_to_offline_driver(ride_id, driver_id) ==
    /\ Receive
    /\ IF ride_id \notin Ids(rides)
       THEN Reject("assign_ride_to_driver", 404, "Ride not found")
       ELSE IF rides[ride_id].status # "requested"
       THEN Reject("assign_ride_to_driver", 400, "Ride is not in requested status")
       ELSE IF driver_id \notin DOMAIN drivers
       THEN Reject("assign_ride_to_driver", 404, "Driver not found")
       ELSE /\ rides' = [rides EXCEPT ![ride_id] =
                  [@ EXCEPT !.driver_id = Some(driver_id),
                            !.status = "assigned",
                            !.assigned_at = Some(utcnow)]]
            /\ resp' = Response("assign_ride_to_driver", 200, "Ride assigned to driver successfully")
            /\ UNCHANGED <<drivers, km_entries, attendance>>

assign_ride_to_driver(ride_id, driver_id) ==
    /\ Receive
    /\ IF ride_id \notin Ids(rides)
       THEN Reject("assign_ride_to_driver", 404, "Ride not found")
       ELSE IF rides[ride_id].status # "requested"
       THEN Reject("assign_ride_to_driver", 400, "Ride is not in requested status")
       ELSE IF driver_id \notin DOMAIN drivers
       THEN Reject("assign_ride_to_driver", 404, "Driver not found")
       ELSE IF ~drivers[driver_id].is_online
       THEN Reject("assign_ride_to_driver", 400, "Driver is not online")
       ELSE /\ rides' = [rides EXCEPT ![ride_id] =
                  [@ EXCEPT !.driver_id = Some(driver_id),
                            !.status = "assigned",
                            !.assigned_at = Some(utcnow)]]
            /\ resp' = Response("assign_ride_to_driver", 200, "Ride assigned to driver successfully")
            /\ UNCHANGED <<drivers, km_entries, attendance>>

\* update_driver_status without its assignment of last_status_change
update_driver_status_without_stamp(driver_id, is_online) ==
    /\ Receive
    /\ IF driver_id \notin DOMAIN drivers
       THEN Reject("update_driver_status", 404, "Driver not found")
       ELSE /\ drivers' = [drivers EXCEPT ![driver_id].is_online = is_online]
            /\ resp' = Response("update_driver_status", 200, "Status updated successfully")
            /\ UNCHANGED <<rides, km_entries, attendance>>

update_driver_status(driver_id, is_online) ==
    /\ Receive
    /\ IF driver_id \notin DOMAIN drivers
       THEN Reject("update_driver_status", 404, "Driver not found")
       ELSE /\ drivers' = [drivers EXCEPT ![driver_id].is_online = is_online,
                                          ![driver_id].last_status_change = budget]
            /\ resp' = Response("update_driver_status", 200, "Status updated successfully")
            /\ UNCHANGED <<rides, km_entries, attendance>>

\* request.get(key) on a JSON body
Get(request, key) == IF key \in DOMAIN request THEN Some(request[key]) ELSE None

\* The bodies PUT /drivers/me/status-body is sent: with and without is_online.
StatusBodies == {[is_online |-> TRUE], [is_online |-> FALSE], <<>>}

ManualRideFields == {"passenger_id", "driver_id", "pickup_address", "dropoff_address"}

\* The bodies POST /rides/manual is sent: complete ones, and one with a field missing.
ManualRideBodies ==
    {[passenger_id |-> p, driver_id |-> d, pickup_address |-> "a", dropoff_address |-> "b"] :
        p \in PassengerInputs, d \in DriverIds}
    \cup {[passenger_id |-> "p1", driver_id |-> SeedDriver, pickup_address |-> "a"]}

\* Every HTTPException raised inside the handler's try block is an Exception:
\* the except clause catches it, rolls back and answers 500.
create_manual_ride(ride_data) ==
    /\ Receive
    /\ IF ManualRideFields \ DOMAIN ride_data # {}
       THEN Reject("create_manual_ride", 500, "Error creating ride: 400: Missing required field")
       ELSE IF ride_data.passenger_id \notin PassengerIds
       THEN Reject("create_manual_ride", 500, "Error creating ride: 404: Passenger not found")
       ELSE IF ride_data.driver_id \notin DOMAIN drivers
       THEN Reject("create_manual_ride", 500, "Error creating ride: 404: Driver not found")
       ELSE IF ~drivers[ride_data.driver_id].is_online
       THEN Reject("create_manual_ride", 500, "Error creating ride: 400: Driver is not online")
       ELSE /\ rides' = Append(rides, DBRide(ride_data.passenger_id, Some(ride_data.driver_id),
                                             "assigned", Some(utcnow)))
            /\ resp' = Response("create_manual_ride", 200, "")
            /\ UNCHANGED <<drivers, km_entries, attendance>>

update_my_status(current_user, is_online) ==
    /\ Receive
    /\ IF DriversOfUser(current_user) = {}
       THEN Reject("update_my_status", 404, "Driver profile not found")
       ELSE \E d \in DriversOfUser(current_user) :
            /\ drivers' = [drivers EXCEPT ![d].is_online = is_online,
                                          ![d].last_status_change = budget]
            /\ resp' = Response("update_my_status", 200, "Status updated successfully")
            /\ UNCHANGED <<rides, km_entries, attendance>>

\* db.query(DBDriverAttendance).filter(driver_id == d, status == "active")
ActiveAttendance(d) ==
    {i \in Ids(attendance) : attendance[i].driver_id = d /\ attendance[i].status = "active"}

update_my_status_body(current_user, request) ==
    /\ Receive
    /\ IF Get(request, "is_online") = None
       THEN Reject("update_my_status_body", 400, "is_online parameter is required")
       ELSE IF DriversOfUser(current_user) = {}
       THEN Reject("update_my_status_body", 404, "Driver profile not found")
       ELSE \E d \in DriversOfUser(current_user) :
            LET is_online == request.is_online IN
            /\ IF is_online /\ ~drivers[d].is_online
               THEN attendance' = Append(attendance, DBDriverAttendance(d))
               ELSE IF ~is_online /\ drivers[d].is_online /\ ActiveAttendance(d) # {}
               \* .first() with no ORDER BY: any of the matching rows
               THEN \E i \in ActiveAttendance(d) :
                        attendance' = [attendance EXCEPT ![i] =
                            [@ EXCEPT !.end_time = Some(utcnow), !.status = "completed"]]
               ELSE UNCHANGED attendance
            /\ drivers' = [drivers EXCEPT ![d].is_online = is_online,
                                          ![d].last_status_change = budget]
            /\ resp' = Response("update_my_status_body", 200, "Status updated successfully")
            /\ UNCHANGED <<rides, km_entries>>

\* No foreign key is checked (SQLite, no PRAGMA foreign_keys): the row is added
\* whether or not driver_id names a driver.
create_km_entry(driver_id, start_km, ride_id) ==
    /\ Receive
    /\ km_entries' = Append(km_entries, DBKilometerEntry(driver_id, start_km, ride_id))
    /\ drivers' = IF driver_id \in DOMAIN drivers
                  THEN [drivers EXCEPT ![driver_id].current_km_reading = start_km]
                  ELSE drivers
    /\ resp' = Response("create_km_entry", 200, "")
    /\ UNCHANGED <<rides, attendance>>

complete_km_entry(entry_id, end_km) ==
    /\ Receive
    /\ IF entry_id \notin Ids(km_entries)
       THEN Reject("complete_km_entry", 404, "Kilometer entry not found")
       ELSE LET driver_id == km_entries[entry_id].driver_id IN
            /\ km_entries' = [km_entries EXCEPT ![entry_id] =
                   [@ EXCEPT !.end_km = Some(end_km), !.status = "completed"]]
            /\ drivers' = IF driver_id \in DOMAIN drivers
                          THEN [drivers EXCEPT ![driver_id].current_km_reading = end_km]
                          ELSE drivers
            /\ resp' = Response("complete_km_entry", 200, "Kilometer entry completed")
            /\ UNCHANGED <<rides, attendance>>

\* start_ride without its check of the ride's status
start_ride_in_any_status(current_user, ride_id, start_km) ==
    /\ Receive
    /\ IF DriversOfUser(current_user) = {}
       THEN Reject("start_ride", 404, "Driver profile not found")
       ELSE \E d \in DriversOfUser(current_user) :
            IF ride_id \notin Ids(rides)
            THEN Reject("start_ride", 404, "Ride not found")
            ELSE IF rides[ride_id].driver_id # Some(d)
            THEN Reject("start_ride", 403, "You are not assigned to this ride")
            ELSE /\ rides' = [rides EXCEPT ![ride_id] =
                       [@ EXCEPT !.status = "in_progress", !.picked_up_at = Some(utcnow)]]
                 /\ km_entries' = Append(km_entries, DBKilometerEntry(d, start_km, Some(ride_id)))
                 /\ drivers' = [drivers EXCEPT ![d].current_km_reading = start_km]
                 /\ resp' = Response("start_ride", 200, "Ride started successfully")
                 /\ UNCHANGED attendance

\* start_ride without its update of the driver's current_km_reading
start_ride_keeping_km_reading(current_user, ride_id, start_km) ==
    /\ Receive
    /\ IF DriversOfUser(current_user) = {}
       THEN Reject("start_ride", 404, "Driver profile not found")
       ELSE \E d \in DriversOfUser(current_user) :
            IF ride_id \notin Ids(rides)
            THEN Reject("start_ride", 404, "Ride not found")
            ELSE IF rides[ride_id].driver_id # Some(d)
            THEN Reject("start_ride", 403, "You are not assigned to this ride")
            ELSE IF rides[ride_id].status # "assigned"
            THEN Reject("start_ride", 400, "Ride is not in assigned status")
            ELSE /\ rides' = [rides EXCEPT ![ride_id] =
                       [@ EXCEPT !.status = "in_progress", !.picked_up_at = Some(utcnow)]]
                 /\ km_entries' = Append(km_entries, DBKilometerEntry(d, start_km, Some(ride_id)))
                 /\ drivers' = drivers
                 /\ resp' = Response("start_ride", 200, "Ride started successfully")
                 /\ UNCHANGED attendance

\* start_ride committing its kilometer entry before its check of the ride's status
start_ride_writing_before_check(current_user, ride_id, start_km) ==
    /\ Receive
    /\ IF DriversOfUser(current_user) = {}
       THEN Reject("start_ride", 404, "Driver profile not found")
       ELSE \E d \in DriversOfUser(current_user) :
            IF ride_id \notin Ids(rides)
            THEN Reject("start_ride", 404, "Ride not found")
            ELSE IF rides[ride_id].driver_id # Some(d)
            THEN Reject("start_ride", 403, "You are not assigned to this ride")
            ELSE IF rides[ride_id].status # "assigned"
            THEN /\ km_entries' = Append(km_entries, DBKilometerEntry(d, start_km, Some(ride_id)))
                 /\ resp' = Response("start_ride", 400, "Ride is not in assigned status")
                 /\ UNCHANGED <<drivers, rides, attendance>>
            ELSE /\ rides' = [rides EXCEPT ![ride_id] =
                       [@ EXCEPT !.status = "in_progress", !.picked_up_at = Some(utcnow)]]
                 /\ km_entries' = Append(km_entries, DBKilometerEntry(d, start_km, Some(ride_id)))
                 /\ drivers' = [drivers EXCEPT ![d].current_km_reading = start_km]
                 /\ resp' = Response("start_ride", 200, "Ride started successfully")
                 /\ UNCHANGED attendance

start_ride(current_user, ride_id, start_km) ==
    /\ Receive
    /\ IF DriversOfUser(current_user) = {}
       THEN Reject("start_ride", 404, "Driver profile not found")
       ELSE \E d \in DriversOfUser(current_user) :
            IF ride_id \notin Ids(rides)
            THEN Reject("start_ride", 404, "Ride not found")
            ELSE IF rides[ride_id].driver_id # Some(d)
            THEN Reject("start_ride", 403, "You are not assigned to this ride")
            ELSE IF rides[ride_id].status # "assigned"
            THEN Reject("start_ride", 400, "Ride is not in assigned status")
            ELSE /\ rides' = [rides EXCEPT ![ride_id] =
                       [@ EXCEPT !.status = "in_progress", !.picked_up_at = Some(utcnow)]]
                 /\ km_entries' = Append(km_entries, DBKilometerEntry(d, start_km, Some(ride_id)))
                 /\ drivers' = [drivers EXCEPT ![d].current_km_reading = start_km]
                 /\ resp' = Response("start_ride", 200, "Ride started successfully")
                 /\ UNCHANGED attendance

\* db.query(DBKilometerEntry).filter(ride_id == ride_id, status == "started")
StartedEntriesOfRide(ride_id) ==
    {i \in Ids(km_entries) : km_entries[i].ride_id = Some(ride_id)
                             /\ km_entries[i].status = "started"}

\* DBRide has no start_km column, so hasattr(ride, 'start_km') is False
ride_distance(ride, end_km) == 0

\* complete_ride without its increment of the driver's total_rides
complete_ride_without_count(current_user, ride_id, end_km) ==
    /\ Receive
    /\ IF DriversOfUser(current_user) = {}
       THEN Reject("complete_ride", 404, "Driver profile not found")
       ELSE \E d \in DriversOfUser(current_user) :
            IF ride_id \notin Ids(rides)
            THEN Reject("complete_ride", 404, "Ride not found")
            ELSE IF rides[ride_id].driver_id # Some(d)
            THEN Reject("complete_ride", 403, "You are not assigned to this ride")
            ELSE IF rides[ride_id].status # "in_progress"
            THEN Reject("complete_ride", 400, "Ride is not in progress")
            ELSE /\ rides' = [rides EXCEPT ![ride_id] =
                       [@ EXCEPT !.status = "completed", !.completed_at = Some(utcnow),
                                 !.distance = ride_distance(rides[ride_id], end_km)]]
                 /\ IF StartedEntriesOfRide(ride_id) = {}
                    THEN UNCHANGED km_entries
                    \* .first() with no ORDER BY: any of the matching rows
                    ELSE \E i \in StartedEntriesOfRide(ride_id) :
                             km_entries' = [km_entries EXCEPT ![i] =
                                 [@ EXCEPT !.end_km = Some(end_km), !.status = "completed"]]
                 /\ drivers' = [drivers EXCEPT ![d].current_km_reading = end_km]
                 /\ resp' = Response("complete_ride", 200, "Ride completed successfully")
                 /\ UNCHANGED attendance

complete_ride(current_user, ride_id, end_km) ==
    /\ Receive
    /\ IF DriversOfUser(current_user) = {}
       THEN Reject("complete_ride", 404, "Driver profile not found")
       ELSE \E d \in DriversOfUser(current_user) :
            IF ride_id \notin Ids(rides)
            THEN Reject("complete_ride", 404, "Ride not found")
            ELSE IF rides[ride_id].driver_id # Some(d)
            THEN Reject("complete_ride", 403, "You are not assigned to this ride")
            ELSE IF rides[ride_id].status # "in_progress"
            THEN Reject("complete_ride", 400, "Ride is not in progress")
            ELSE /\ rides' = [rides EXCEPT ![ride_id] =
                       [@ EXCEPT !.status = "completed", !.completed_at = Some(utcnow),
                                 !.distance = ride_distance(rides[ride_id], end_km)]]
                 /\ IF StartedEntriesOfRide(ride_id) = {}
                    THEN UNCHANGED km_entries
                    \* .first() with no ORDER BY: any of the matching rows
                    ELSE \E i \in StartedEntriesOfRide(ride_id) :
                             km_entries' = [km_entries EXCEPT ![i] =
                                 [@ EXCEPT !.end_km = Some(end_km), !.status = "completed"]]
                 /\ drivers' = [drivers EXCEPT ![d].current_km_reading = end_km,
                                               ![d].total_rides = @ + 1]
                 /\ resp' = Response("complete_ride", 200, "Ride completed successfully")
                 /\ UNCHANGED attendance

\* ride_id values POST /km-entries may carry: none, or the id of a ride
RideRefInputs == {None} \cup {Some(r) : r \in Ids(rides)}

Next ==
    \/ \E d \in DriverIds : create_driver(d)
    \/ \E p \in PassengerInputs : create_ride(p)
    \/ \E body \in ManualRideBodies : create_manual_ride(body)
    \/ \E r \in IdInputs(rides), s \in RideStatus : update_ride_status(r, s)
    \/ \E r \in IdInputs(rides), d \in DriverIds : assign_ride_to_driver(r, d)
    \/ \E u \in DriverUsers, r \in IdInputs(rides), km \in KmInputs : start_ride(u, r, km)
    \/ \E u \in DriverUsers, r \in IdInputs(rides), km \in KmInputs : complete_ride(u, r, km)
    \/ \E d \in DriverIds, b \in BOOLEAN : update_driver_status(d, b)
    \/ \E u \in DriverUsers, b \in BOOLEAN : update_my_status(u, b)
    \/ \E u \in DriverUsers, body \in StatusBodies : update_my_status_body(u, body)
    \/ \E d \in DriverIds, km \in KmInputs, r \in RideRefInputs : create_km_entry(d, km, r)
    \/ \E e \in IdInputs(km_entries), km \in KmInputs : complete_km_entry(e, km)

Spec == Init /\ [][Next]_vars

----------------------------------------------------------------------------
(* Leave requests *)

\* The users created at startup besides the driver's: the administrator and
\* the passenger.
AdminUser == [id |-> "a1", role |-> "admin"]

PassengerUser == [id |-> "pu1", role |-> "passenger"]

\* the users a token can name: current_user of Depends(get_current_user)
Users ==
    {AdminUser, PassengerUser}
    \cup {[id |-> drivers[d].user_id, role |-> "driver"] : d \in DOMAIN drivers}

LeaveStatus == {"pending", "approved", "rejected"}

DBLeaveRequest(driver_id) ==
    [driver_id |-> driver_id, status |-> "pending", reviewed_at |-> None,
     reviewed_by |-> None, comments |-> None]

\* the 200 of a handler that returns rows: the ids of the rows in its body
Returned(op, rows) == [op |-> op, code |-> 200, detail |-> "", rows |-> rows]

\* LeaveRequestCreate.driver_id as a request may carry it: absent, the id of
\* a driver row or the id of a driver's user
LeaveDriverInputs ==
    {None} \cup {Some(x) : x \in DriverIds \cup {UserOf(d) : d \in DriverIds}}

\* LeaveRequestReview
LeaveReviews == [status : LeaveStatus, comments : {None, Some("c")}]

\* create_leave_request taking the body's driver_id from any caller that sends one
create_leave_request_trusting_body(current_user, driver_id) ==
    /\ ReceiveRequest
    /\ IF current_user.role = "admin" /\ driver_id = None
       THEN Reject("create_leave_request", 400, "driver_id is required for admin requests")
       ELSE LET user_id == IF current_user.role = "admin" \/ driver_id # None
                           THEN driver_id[1] ELSE current_user.id
            IN IF DriversOfUser(user_id) = {}
               THEN Reject("create_leave_request", 404, "Driver not found")
               ELSE \E d \in DriversOfUser(user_id) :
                    /\ leave_requests' = Append(leave_requests, DBLeaveRequest(d))
                    /\ resp' = Returned("create_leave_request", {Len(leave_requests) + 1})
                    /\ UNCHANGED <<drivers, rides, km_entries, attendance>>

create_leave_request(current_user, driver_id) ==
    /\ ReceiveRequest
    /\ IF current_user.role = "admin" /\ driver_id = None
       THEN Reject("create_leave_request", 400, "driver_id is required for admin requests")
       ELSE LET user_id == IF current_user.role = "admin"
                           THEN driver_id[1] ELSE current_user.id
            IN IF DriversOfUser(user_id) = {}
               THEN Reject("create_leave_request", 404, "Driver not found")
               ELSE \E d \in DriversOfUser(user_id) :
                    /\ leave_requests' = Append(leave_requests, DBLeaveRequest(d))
                    /\ resp' = Returned("create_leave_request", {Len(leave_requests) + 1})
                    /\ UNCHANGED <<drivers, rides, km_entries, attendance>>

review_leave_request(current_user, request_id, review) ==
    /\ ReceiveRequest
    /\ IF request_id \notin Ids(leave_requests)
       THEN Reject("review_leave_request", 404, "Leave request not found")
       ELSE /\ leave_requests' = [leave_requests EXCEPT ![request_id] =
                  [@ EXCEPT !.status = review.status,
                            !.reviewed_at = Some(utcnow),
                            !.reviewed_by = Some(current_user.id),
                            !.comments = review.comments]]
            /\ resp' = Response("review_leave_request", 200, "Leave request reviewed successfully")
            /\ UNCHANGED <<drivers, rides, km_entries, attendance>>

\* query.all() of get_leave_requests when it raises nothing
leave_requests_query(current_user, driver_id) ==
    IF driver_id # None
    THEN {i \in Ids(leave_requests) : leave_requests[i].driver_id = driver_id[1]}
    ELSE IF current_user.role = "driver" /\ DriversOfUser(current_user.id) # {}
    THEN {i \in Ids(leave_requests) :
             leave_requests[i].driver_id \in DriversOfUser(current_user.id)}
    ELSE Ids(leave_requests)

get_leave_requests(current_user, driver_id) ==
    /\ ReceiveRequest
    /\ IF driver_id # None /\ current_user.role # "admin"
       THEN Reject("get_leave_requests", 403, "Only admins can view other drivers' leave requests")
       ELSE /\ resp' = Returned("get_leave_requests",
                                leave_requests_query(current_user, driver_id))
            /\ UNCHANGED tables

get_leave_request(current_user, request_id) ==
    /\ ReceiveRequest
    /\ IF request_id \notin Ids(leave_requests)
       THEN Reject("get_leave_request", 404, "Leave request not found")
       ELSE IF /\ current_user.role = "driver"
               /\ leave_requests[request_id].driver_id \notin DriversOfUser(current_user.id)
       THEN Reject("get_leave_request", 403, "Access denied")
       ELSE /\ resp' = Returned("get_leave_request", {request_id})
            /\ UNCHANGED tables

LeaveInit ==
    /\ startup_event
    /\ resp = Response("startup", 200, "")
    /\ budget = MaxLeaveRequests
    /\ sess = [w \in Workers |-> NoSession]

\* Every handler of Spec, and the handlers of the leave requests.
LeaveNext ==
    \/ Next
    \/ \E u \in Users, d \in LeaveDriverInputs : create_leave_request(u, d)
    \/ \E r \in IdInputs(leave_requests), review \in LeaveReviews :
          review_leave_request(AdminUser, r, review)
    \/ \E u \in Users, d \in {None} \cup {Some(x) : x \in DriverIds} :
          get_leave_requests(u, d)
    \/ \E u \in Users, r \in IdInputs(leave_requests) : get_leave_request(u, r)

LeaveSpec == LeaveInit /\ [][LeaveNext]_vars

----------------------------------------------------------------------------
(* Handlers on two thread-pool workers                                     *)
(*                                                                         *)
(* get_db gives every request a Session of its own.  Its SELECTs run       *)
(* outside any transaction and its commit flushes, as one transaction, an  *)
(* UPDATE of the columns the handler changed on the rows it loaded, with   *)
(* the values it computed from what it loaded.  A handler is two steps     *)
(* here: its queries and checks, then its commit.                          *)

\* ConcSpec sends the requests of one driver, one passenger and one odometer
\* reading: enough for two requests to overlap on a ride or on the driver.
ConcManualRideBodies ==
    {[passenger_id |-> "p1", driver_id |-> SeedDriver, pickup_address |-> "a",
      dropoff_address |-> "b"]}

\* requests whose queries have run and whose commit has not
InFlight == {sess[w].req : w \in {x \in Workers : sess[x].pc = "commit"}}

\* The session after the handler's queries and checks: the rows it loaded and
\* the response it will send; a rejected request ends here.
Session(op, ride_id, driver_id, km, ride, driver, entry, response) ==
    [pc |-> IF response.code = 200 THEN "commit" ELSE "done",
     req |-> budget, overlaps |-> InFlight, op |-> op, ride_id |-> ride_id,
     driver_id |-> driver_id, km |-> km, ride |-> ride, driver |-> driver,
     entry |-> entry, resp |-> response]

\* worker w is not in the middle of a request
Free(w) == sess[w].pc # "commit"

\* worker w takes a request and runs the handler's queries and checks
Load(w, session) ==
    /\ budget > 0
    /\ budget' = budget - 1
    /\ sess' = [sess EXCEPT ![w] = session]
    /\ resp' = IF session.pc = "done" THEN session.resp ELSE resp
    /\ UNCHANGED tables

\* the flush of one column: written when the handler changed the loaded value
Flush(loaded, new, stored) == IF new = loaded THEN stored ELSE new

\* db.commit() returned and the response is sent
Committed(w) ==
    /\ sess' = [sess EXCEPT ![w].pc = "done"]
    /\ resp' = sess[w].resp
    /\ UNCHANGED <<budget, leave_requests>>

assign_load(w, ride_id, driver_id) ==
    /\ Free(w)
    /\ Load(w,
         IF ride_id \notin Ids(rides)
         THEN Session("assign_ride_to_driver", ride_id, driver_id, None, None, None, None,
                      Response("assign_ride_to_driver", 404, "Ride not found"))
         ELSE IF rides[ride_id].status # "requested"
         THEN Session("assign_ride_to_driver", ride_id, driver_id, None, Some(rides[ride_id]),
                      None, None,
                      Response("assign_ride_to_driver", 400, "Ride is not in requested status"))
         ELSE IF driver_id \notin DOMAIN drivers
         THEN Session("assign_ride_to_driver", ride_id, driver_id, None, Some(rides[ride_id]),
                      None, None,
                      Response("assign_ride_to_driver", 404, "Driver not found"))
         ELSE IF ~drivers[driver_id].is_online
         THEN Session("assign_ride_to_driver", ride_id, driver_id, None, Some(rides[ride_id]),
                      Some(drivers[driver_id]), None,
                      Response("assign_ride_to_driver", 400, "Driver is not online"))
         ELSE Session("assign_ride_to_driver", ride_id, driver_id, None, Some(rides[ride_id]),
                      Some(drivers[driver_id]), None,
                      Response("assign_ride_to_driver", 200, "Ride assigned to driver successfully")))

assign_commit(w) ==
    /\ sess[w].pc = "commit"
    /\ sess[w].op = "assign_ride_to_driver"
    /\ LET s == sess[w]
           loaded == s.ride[1]
       IN rides' = [rides EXCEPT ![s.ride_id] =
              [@ EXCEPT !.driver_id = Flush(loaded.driver_id, Some(s.driver_id), @),
                        !.status = Flush(loaded.status, "assigned", @),
                        !.assigned_at = Some(utcnow)]]
    /\ Committed(w)
    /\ UNCHANGED <<drivers, km_entries, attendance>>

\* PUT /rides/{id}/status with status=cancelled, the only way to cancel a ride
cancel_load(w, ride_id) ==
    /\ Free(w)
    /\ Load(w,
         IF ride_id \notin Ids(rides)
         THEN Session("update_ride_status", ride_id, None, None, None, None, None,
                      Response("update_ride_status", 404, "Ride not found"))
         ELSE Session("update_ride_status", ride_id, None, None, Some(rides[ride_id]), None, None,
                      Response("update_ride_status", 200, "Ride status updated successfully")))

cancel_commit(w) ==
    /\ sess[w].pc = "commit"
    /\ sess[w].op = "update_ride_status"
    /\ LET s == sess[w]
           loaded == s.ride[1]
       IN rides' = [rides EXCEPT ![s.ride_id] =
              [@ EXCEPT !.status = Flush(loaded.status, "cancelled", @),
                        !.cancelled_at = Some(utcnow)]]
    /\ Committed(w)
    /\ UNCHANGED <<drivers, km_entries, attendance>>

start_load(w, current_user, ride_id, start_km) ==
    /\ Free(w)
    /\ IF DriversOfUser(current_user) = {}
       THEN Load(w, Session("start_ride", ride_id, None, start_km, None, None, None,
                            Response("start_ride", 404, "Driver profile not found")))
       ELSE \E d \in DriversOfUser(current_user) :
            Load(w,
                 IF ride_id \notin Ids(rides)
                 THEN Session("start_ride", ride_id, d, start_km, None, Some(drivers[d]), None,
                              Response("start_ride", 404, "Ride not found"))
                 ELSE IF rides[ride_id].driver_id # Some(d)
                 THEN Session("start_ride", ride_id, d, start_km, Some(rides[ride_id]),
                              Some(drivers[d]), None,
                              Response("start_ride", 403, "You are not assigned to this ride"))
                 ELSE IF rides[ride_id].status # "assigned"
                 THEN Session("start_ride", ride_id, d, start_km, Some(rides[ride_id]),
                              Some(drivers[d]), None,
                              Response("start_ride", 400, "Ride is not in assigned status"))
                 ELSE Session("start_ride", ride_id, d, start_km, Some(rides[ride_id]),
                              Some(drivers[d]), None,
                              Response("start_ride", 200, "Ride started successfully")))

start_commit(w) ==
    /\ sess[w].pc = "commit"
    /\ sess[w].op = "start_ride"
    /\ LET s == sess[w]
           d == s.driver_id
       IN /\ rides' = [rides EXCEPT ![s.ride_id] =
                 [@ EXCEPT !.status = Flush(s.ride[1].status, "in_progress", @),
                           !.picked_up_at = Some(utcnow)]]
          /\ km_entries' = Append(km_entries, DBKilometerEntry(d, s.km, Some(s.ride_id)))
          /\ drivers' = [drivers EXCEPT ![d].current_km_reading =
                 Flush(s.driver[1].current_km_reading, s.km, @)]
    /\ Committed(w)
    /\ UNCHANGED attendance

complete_load(w, current_user, ride_id, end_km) ==
    /\ Free(w)
    /\ IF DriversOfUser(current_user) = {}
       THEN Load(w, Session("complete_ride", ride_id, None, end_km, None, None, None,
                            Response("complete_ride", 404, "Driver profile not found")))
       ELSE \E d \in DriversOfUser(current_user) :
            IF ride_id \notin Ids(rides)
            THEN Load(w, Session("complete_ride", ride_id, d, end_km, None, Some(drivers[d]), None,
                                 Response("complete_ride", 404, "Ride not found")))
            ELSE IF rides[ride_id].driver_id # Some(d)
            THEN Load(w, Session("complete_ride", ride_id, d, end_km, Some(rides[ride_id]),
                                 Some(drivers[d]), None,
                                 Response("complete_ride", 403, "You are not assigned to this ride")))
            ELSE IF rides[ride_id].status # "in_progress"
            THEN Load(w, Session("complete_ride", ride_id, d, end_km, Some(rides[ride_id]),
                                 Some(drivers[d]), None,
                                 Response("complete_ride", 400, "Ride is not in progress")))
            ELSE IF StartedEntriesOfRide(ride_id) = {}
            THEN Load(w, Session("complete_ride", ride_id, d, end_km, Some(rides[ride_id]),
                                 Some(drivers[d]), None,
                                 Response("complete_ride", 200, "Ride completed successfully")))
            ELSE \E i \in StartedEntriesOfRide(ride_id) :
                 Load(w, Session("complete_ride", ride_id, d, end_km, Some(rides[ride_id]),
                                 Some(drivers[d]), Some(i),
                                 Response("complete_ride", 200, "Ride completed successfully")))

complete_commit(w) ==
    /\ sess[w].pc = "commit"
    /\ sess[w].op = "complete_ride"
    /\ LET s == sess[w]
           d == s.driver_id
       IN /\ rides' = [rides EXCEPT ![s.ride_id] =
                 [@ EXCEPT !.status = Flush(s.ride[1].status, "completed", @),
                           !.completed_at = Some(utcnow),
                           !.distance = Flush(s.ride[1].distance,
                                              ride_distance(s.ride[1], s.km), @)]]
          /\ km_entries' = IF s.entry = None THEN km_entries
                           ELSE [km_entries EXCEPT ![s.entry[1]] =
                                    [@ EXCEPT !.end_km = Some(s.km), !.status = "completed"]]
          /\ drivers' = [drivers EXCEPT
                 ![d].current_km_reading = Flush(s.driver[1].current_km_reading, s.km, @),
                 ![d].total_rides = s.driver[1].total_rides + 1]
    /\ Committed(w)
    /\ UNCHANGED attendance

status_body_load(w, current_user, request) ==
    /\ Free(w)
    /\ IF Get(request, "is_online") = None
       THEN Load(w, Session("update_my_status_body", None, None, None, None, None, None,
                            Response("update_my_status_body", 400, "is_online parameter is required")))
       ELSE IF DriversOfUser(current_user) = {}
       THEN Load(w, Session("update_my_status_body", None, None, None, None, None, None,
                            Response("update_my_status_body", 404, "Driver profile not found")))
       ELSE \E d \in DriversOfUser(current_user) :
            LET is_online == request.is_online
                ok == Response("update_my_status_body", 200, "Status updated successfully")
            IN IF ~is_online /\ drivers[d].is_online /\ ActiveAttendance(d) # {}
               THEN \E i \in ActiveAttendance(d) :
                    Load(w, Session("update_my_status_body", None, d, Some(is_online), None,
                                    Some(drivers[d]), Some(i), ok))
               ELSE Load(w, Session("update_my_status_body", None, d, Some(is_online), None,
                                    Some(drivers[d]), None, ok))

status_body_commit(w) ==
    /\ sess[w].pc = "commit"
    /\ sess[w].op = "update_my_status_body"
    /\ LET s == sess[w]
           d == s.driver_id
           is_online == s.km[1]
       IN /\ attendance' =
                 IF is_online /\ ~s.driver[1].is_online
                 THEN Append(attendance, DBDriverAttendance(d))
                 ELSE IF s.entry # None
                 THEN [attendance EXCEPT ![s.entry[1]] =
                          [@ EXCEPT !.end_time = Some(utcnow), !.status = "completed"]]
                 ELSE attendance
          /\ drivers' = [drivers EXCEPT
                 ![d].is_online = Flush(s.driver[1].is_online, is_online, @),
                 ![d].last_status_change = s.req]
    /\ Committed(w)
    /\ UNCHANGED <<rides, km_entries>>

ConcInit ==
    /\ startup_event
    /\ resp = Response("startup", 200, "")
    /\ budget = MaxConcRequests
    /\ sess = [w \in Workers |-> NoSession]

ConcNext ==
    \/ create_ride("p1")
    \/ \E body \in ConcManualRideBodies : create_manual_ride(body)
    \/ \E w \in Workers, b \in BOOLEAN :
           status_body_load(w, UserOf(SeedDriver), [is_online |-> b])
    \/ \E w \in Workers : status_body_commit(w)
    \/ \E w \in Workers, r \in Ids(rides) : assign_load(w, r, SeedDriver)
    \/ \E w \in Workers : assign_commit(w)
    \/ \E w \in Workers, r \in Ids(rides) : start_load(w, UserOf(SeedDriver), r, 100)
    \/ \E w \in Workers : start_commit(w)
    \/ \E w \in Workers, r \in Ids(rides) : complete_load(w, UserOf(SeedDriver), r, 100)
    \/ \E w \in Workers : complete_commit(w)
    \/ \E w \in Workers, r \in Ids(rides) : cancel_load(w, r)
    \/ \E w \in Workers : cancel_commit(w)

ConcSpec == ConcInit /\ [][ConcNext]_vars

----------------------------------------------------------------------------
(* Properties *)

\* The ride state machine of the specification, as <<from, to>> edges.
TransitionTable ==
    {<<"requested", "assigned">>, <<"assigned", "in_progress">>,
     <<"in_progress", "completed">>, <<"requested", "cancelled">>,
     <<"assigned", "cancelled">>, <<"in_progress", "cancelled">>}

Terminal == {"completed", "cancelled"}

\* C1: every change of a ride's status, by any handler, PUT /rides/{id}/status
\* included, is an edge of the transition table.
C1_StatusChangesFollowTable ==
    [][\A r \in Ids(rides) :
          rides'[r].status # rides[r].status
          => <<rides[r].status, rides'[r].status>> \in TransitionTable]_vars

\* C2: a ride whose status is completed or cancelled keeps that status in
\* every later step.
C2_TerminalStatusesStay ==
    [][\A r \in Ids(rides) :
          rides[r].status \in Terminal => rides'[r].status = rides[r].status]_vars

\* rows of kilometer_entries of driver d with status started
StartedEntries(d) ==
    {i \in Ids(km_entries) : km_entries[i].driver_id = d /\ km_entries[i].status = "started"}

\* C6: every driver has at most one KilometerEntry with status started,
\* whether opened by start_ride or by POST /km-entries.
C6_OneStartedEntryPerDriver ==
    \A d \in DriverIds : Cardinality(StartedEntries(d)) <= 1

\* C7: every driver has at most one AttendanceSession with status active.
C7_OneActiveSessionPerDriver ==
    \A d \in DriverIds : Cardinality(ActiveAttendance(d)) <= 1

\* C8: a driver's online flag is true exactly when the driver has an
\* AttendanceSession with status active.
C8_OnlineIffActiveSession ==
    \A d \in DOMAIN drivers : drivers[d].is_online <=> ActiveAttendance(d) # {}

\* C9: a ride's driver_id is set exactly when its status is assigned,
\* in_progress or completed, except that a cancelled ride may keep the
\* driver_id it had.
C9_DriverIdIffAssigned ==
    \A r \in Ids(rides) :
        \/ rides[r].status = "cancelled"
        \/ rides[r].driver_id # None
           <=> rides[r].status \in {"assigned", "in_progress", "completed"}

\* The errors of the specification, as assign_ride_to_driver answers them.
AssignInvalidTransition ==
    Response("assign_ride_to_driver", 400, "Ride is not in requested status")

AssignDriverUnavailable ==
    Response("assign_ride_to_driver", 400, "Driver is not online")

\* C10: Assign succeeds only for a ride in status requested and a driver that
\* exists and is online; it answers InvalidTransition for a ride in any other
\* status and DriverUnavailable for an offline driver of a requested ride; a
\* successful Assign leaves the ride with the driver_id, status assigned and
\* assigned_at stamped.
C10_AssignContract ==
    [][resp'.op = "assign_ride_to_driver" =>
       \A r \in IdInputs(rides), d \in DriverIds :
          assign_ride_to_driver(r, d) =>
            /\ resp'.code = 200 =>
                 /\ r \in Ids(rides) /\ rides[r].status = "requested"
                 /\ d \in DOMAIN drivers /\ drivers[d].is_online
                 /\ rides'[r].driver_id = Some(d)
                 /\ rides'[r].status = "assigned"
                 /\ rides'[r].assigned_at = Some(utcnow)
            /\ (r \in Ids(rides) /\ rides[r].status # "requested")
                 => resp' = AssignInvalidTransition
            /\ (r \in Ids(rides) /\ rides[r].status = "requested"
                /\ d \in DOMAIN drivers /\ ~drivers[d].is_online)
                 => resp' = AssignDriverUnavailable]_vars

\* An Assign has just succeeded: the ride it named is assigned to an online driver.
C10_Witness ==
    /\ resp = Response("assign_ride_to_driver", 200, "Ride assigned to driver successfully")
    /\ \E r \in Ids(rides) :
          /\ rides[r].status = "assigned"
          /\ rides[r].assigned_at = Some(utcnow)
          /\ \E d \in DOMAIN drivers : rides[r].driver_id = Some(d) /\ drivers[d].is_online

\* the request worker w handled last has been answered
Answered(w) == sess[w].pc = "done"

\* the last requests of w1 and w2 ran concurrently: one ran its queries
\* after the other's queries and before the other's commit
Concurrent(w1, w2) ==
    /\ w1 # w2
    /\ Answered(w1)
    /\ Answered(w2)
    /\ sess[w1].req \in sess[w2].overlaps \/ sess[w2].req \in sess[w1].overlaps

\* the request of w found the ride it names in this status
FoundRide(w, status) == sess[w].ride # None /\ sess[w].ride[1].status = status

\* C3: of two concurrent Assign calls for two different requested rides and
\* the same online driver, exactly one succeeds and the other is answered
\* DriverUnavailable.
C3_ConcurrentAssignOneDriver ==
    \A w1, w2 \in Workers :
        ( /\ Concurrent(w1, w2)
          /\ sess[w1].op = "assign_ride_to_driver"
          /\ sess[w2].op = "assign_ride_to_driver"
          /\ sess[w1].ride_id # sess[w2].ride_id
          /\ sess[w1].driver_id = sess[w2].driver_id
          /\ FoundRide(w1, "requested")
          /\ FoundRide(w2, "requested")
          /\ sess[w1].driver # None /\ sess[w1].driver[1].is_online )
        => \E w \in {w1, w2}, l \in {w1, w2} :
              /\ w # l
              /\ sess[w].resp.code = 200
              /\ sess[l].resp = AssignDriverUnavailable
              /\ Cardinality({r \in {sess[w1].ride_id, sess[w2].ride_id} :
                                 /\ rides[r].status = "assigned"
                                 /\ rides[r].driver_id = Some(sess[w].driver_id)}) = 1

\* the pairs of operations on one ride that C4 names
RidePairs ==
    {<<op, op>> : op \in {"assign_ride_to_driver", "start_ride", "complete_ride"}}
    \cup {<<op, "update_ride_status">> : op \in {"start_ride", "complete_ride"}}
    \cup {<<"update_ride_status", op>> : op \in {"start_ride", "complete_ride"}}

\* C4: of two concurrent mutating operations on one ride that both found it
\* in the same status, at most one takes effect (is answered 200).
C4_OneWinnerPerRide ==
    \A w1, w2 \in Workers :
        ( /\ Concurrent(w1, w2)
          /\ <<sess[w1].op, sess[w2].op>> \in RidePairs
          /\ sess[w1].ride_id = sess[w2].ride_id
          /\ sess[w1].ride # None
          /\ sess[w1].ride = sess[w2].ride )
        => ~(sess[w1].resp.code = 200 /\ sess[w2].resp.code = 200)

\* the request of w was update_my_status_body(is_online=True), answered 200,
\* and it added an attendance row (it had loaded the driver offline)
OpenedSession(w) ==
    /\ sess[w].op = "update_my_status_body"
    /\ sess[w].resp.code = 200
    /\ sess[w].km = Some(TRUE)
    /\ ~sess[w].driver[1].is_online

\* the request of w was complete_ride by driver d, answered 200
Completed(w, d) ==
    /\ sess[w].op = "complete_ride"
    /\ sess[w].resp.code = 200
    /\ sess[w].driver_id = d

\* C5: two concurrent mutating operations on one driver leave the driver as
\* one of their two serial orders does: two SetOnline(d, true) open one
\* session between them, and two Complete of d add two to total_rides.
C5_DriverSerializable ==
    \A w1, w2 \in Workers : \A d \in DOMAIN drivers :
        /\ ( /\ Concurrent(w1, w2)
             /\ sess[w1].driver_id = d /\ sess[w2].driver_id = d
             /\ sess[w1].op = "update_my_status_body"
             /\ sess[w2].op = "update_my_status_body" )
           => ~(OpenedSession(w1) /\ OpenedSession(w2))
        /\ ( /\ Concurrent(w1, w2)
             /\ Completed(w1, d) /\ Completed(w2, d)
             /\ sess[w1].driver[1].total_rides <= sess[w2].driver[1].total_rides )
           => drivers[d].total_rides >= sess[w1].driver[1].total_rides + 2

\* The errors of the specification, as start_ride answers them.
StartForbidden ==
    Response("start_ride", 403, "You are not assigned to this ride")

StartInvalidTransition ==
    Response("start_ride", 400, "Ride is not in assigned status")

C12_NoSecondStartedEntry ==
    [][/\ \A d \in DriverIds, km \in KmInputs, ref \in RideRefInputs :
            (create_km_entry(d, km, ref) /\ StartedEntries(d) # {})
            => /\ resp'.code # 200
               /\ UNCHANGED <<km_entries, rides, drivers>>
       /\ \A u \in DriverUsers, r \in Ids(rides), km \in KmInputs :
            start_ride(u, r, km)
            => \A d \in DriversOfUser(u) :
                 StartedEntries(d) # {}
                 => /\ resp'.code # 200
                    /\ UNCHANGED <<km_entries, rides, drivers>>]_vars

\* C13: Complete with an end_km below the start_km of the ride's started
\* KilometerEntry is refused and leaves the ride, the entry and the driver
\* as they were.
C13_CompleteRefusesLowerReading ==
    [][\A u \in DriverUsers, r \in Ids(rides), km \in KmInputs :
          ( /\ complete_ride(u, r, km)
            /\ StartedEntriesOfRide(r) # {}
            /\ \A i \in StartedEntriesOfRide(r) : km < km_entries[i].start_km )
          => /\ resp'.code # 200
             /\ UNCHANGED <<rides, km_entries, drivers>>]_vars

\* C14: every KilometerEntry with status completed has its end_km set, and
\* not below its start_km.
C14_CompletedEntryReadings ==
    \A i \in Ids(km_entries) :
        km_entries[i].status = "completed"
        => /\ km_entries[i].end_km # None
           /\ km_entries[i].end_km[1] >= km_entries[i].start_km

\* C15: a successful Complete of a ride whose one started KilometerEntry
\* recorded start_km, with end_km >= start_km, leaves the ride with
\* distance = end_km - start_km.
C15_DistanceFromEntry ==
    [][\A u \in DriverUsers, r \in Ids(rides), km \in KmInputs :
          ( /\ complete_ride(u, r, km)
            /\ resp'.code = 200
            /\ Cardinality(StartedEntriesOfRide(r)) = 1 )
          => \A i \in StartedEntriesOfRide(r) :
                km >= km_entries[i].start_km
                => rides'[r].distance = km - km_entries[i].start_km]_vars

\* C16: a successful Complete leaves the ride completed with completed_at
\* stamped, a started KilometerEntry of the ride (when it has one) completed
\* with end_km as given, the driver's current_km_reading at end_km and the
\* driver's total_rides one higher.
C16_CompleteEffects ==
    [][resp'.op = "complete_ride" =>
       \A u \in DriverUsers, r \in IdInputs(rides), km \in KmInputs :
          (complete_ride(u, r, km) /\ resp'.code = 200)
          => \A d \in DriversOfUser(u) :
               /\ rides'[r].status = "completed"
               /\ rides'[r].completed_at = Some(utcnow)
               /\ StartedEntriesOfRide(r) # {}
                    => \E i \in StartedEntriesOfRide(r) :
                          /\ km_entries'[i].status = "completed"
                          /\ km_entries'[i].end_km = Some(km)
               /\ Len(km_entries') = Len(km_entries)
               /\ drivers'[d].current_km_reading = km
               /\ drivers'[d].total_rides = drivers[d].total_rides + 1]_vars

\* A Complete has just succeeded on a ride that had a started entry: the ride
\* is completed, its entry closed at the driver's reading.
C16_Witness ==
    /\ resp = Response("complete_ride", 200, "Ride completed successfully")
    /\ \E r \in Ids(rides), i \in Ids(km_entries), d \in DOMAIN drivers :
          /\ rides[r].status = "completed"
          /\ rides[r].driver_id = Some(d)
          /\ km_entries[i].ride_id = Some(r)
          /\ km_entries[i].status = "completed"
          /\ km_entries[i].end_km = Some(drivers[d].current_km_reading)
          /\ drivers[d].total_rides = SeedTotalRides + 1

\* C17: a successful Start adds exactly one KilometerEntry, with the calling
\* driver, the ride, start_km as given, status started and no end_km, sets
\* the driver's current_km_reading to start_km and leaves the ride
\* in_progress with picked_up_at stamped.
C17_StartEffects ==
    [][resp'.op = "start_ride" =>
       \A u \in DriverUsers, r \in IdInputs(rides), km \in KmInputs :
          (start_ride(u, r, km) /\ resp'.code = 200)
          => \A d \in DriversOfUser(u) :
               /\ km_entries' = km_entries \o
                      <<[driver_id |-> d, ride_id |-> Some(r), start_km |-> km,
                         status |-> "started", end_km |-> None]>>
               /\ drivers'[d].current_km_reading = km
               /\ rides'[r].status = "in_progress"
               /\ rides'[r].picked_up_at = Some(utcnow)]_vars

\* A Start has just succeeded: the ride is in progress and the entry added
\* last is its started entry, at the driver's reading.
C17_Witness ==
    /\ resp = Response("start_ride", 200, "Ride started successfully")
    /\ km_entries # <<>>
    /\ LET e == km_entries[Len(km_entries)] IN
          /\ e.status = "started"
          /\ e.ride_id # None
          /\ rides[e.ride_id[1]].status = "in_progress"
          /\ rides[e.ride_id[1]].driver_id = Some(e.driver_id)
          /\ drivers[e.driver_id].current_km_reading = e.start_km

\* C18: no step lowers a driver's current_km_reading.
C18_KmReadingNeverDecreases ==
    [][\A d \in DOMAIN drivers :
          drivers'[d].current_km_reading >= drivers[d].current_km_reading]_vars

\* SetOnline(d, online) of the specification is a call of one of the three
\* status handlers: by the driver's id, or by the driver's own token.
SetOnlineCall(d, online) ==
    \/ update_driver_status(d, online)
    \/ update_my_status(UserOf(d), online)
    \/ update_my_status_body(UserOf(d), [is_online |-> online])

\* a SetOnline(d, online) that was accepted
SetOnline(d, online) == SetOnlineCall(d, online) /\ resp'.code = 200

StatusOps == {"update_driver_status", "update_my_status", "update_my_status_body"}

\* The request answered last was an accepted SetOnline(d, online): while d is
\* the only driver every accepted status update is one of d, and it left the
\* flag as it was asked.
JustSetOnline(d, online) ==
    /\ DOMAIN drivers = {d}
    /\ resp.op \in StatusOps
    /\ resp.code = 200
    /\ drivers[d].is_online = online

\* C19: a SetOnline(d, b) that directly follows an accepted SetOnline(d, b)
\* changes no attendance record, and after two SetOnline(d, true) in a row d
\* has exactly one active session.
C19_SetOnlineIdempotent ==
    [][\A d \in DOMAIN drivers, b \in BOOLEAN :
          (JustSetOnline(d, b) /\ SetOnline(d, b))
          => /\ attendance' = attendance
             /\ b => Cardinality(ActiveAttendance(d)) = 1]_vars

\* C20: an accepted SetOnline(d, false) on an online driver leaves every
\* session of d that was active completed with end_time set, and d with no
\* active session; for a driver with no active session SetOnline(d, false) is
\* accepted and changes no attendance record.
C20_OfflineClosesSession ==
    [][\A d \in DOMAIN drivers :
          /\ (SetOnline(d, FALSE) /\ drivers[d].is_online)
             => /\ \A i \in ActiveAttendance(d) :
                      /\ attendance'[i].status = "completed"
                      /\ attendance'[i].end_time # None
                /\ ~\E i \in Ids(attendance') :
                        /\ attendance'[i].driver_id = d
                        /\ attendance'[i].status = "active"
          /\ (SetOnlineCall(d, FALSE) /\ ActiveAttendance(d) = {})
             => /\ resp'.code = 200
                /\ attendance' = attendance]_vars

\* C21: a SetOnline(d, true) on an offline driver that has an active
\* AttendanceSession is accepted and adds no session; a session is added
\* only for a driver that has none active.
C21_NoSecondSessionOnMismatch ==
    [][\A d \in DOMAIN drivers :
          ( /\ SetOnlineCall(d, TRUE)
            /\ ~drivers[d].is_online
            /\ ActiveAttendance(d) # {} )
          => /\ resp'.code = 200
             /\ attendance' = attendance]_vars

\* C22: every SetOnline(d, v) on an existing driver is accepted and leaves d
\* with is_online = v and last_status_change stamped by this request,
\* whatever d's attendance sessions are.
C22_SetOnlineSetsFlag ==
    [][resp'.op \in StatusOps =>
       \A d \in DOMAIN drivers, v \in BOOLEAN :
          SetOnlineCall(d, v)
          => /\ resp'.code = 200
             /\ drivers'[d].is_online = v
             /\ drivers'[d].last_status_change = budget]_vars

\* A SetOnline(d, true) has just been accepted for a driver that has no
\* active session: d is online, stamped by the request answered last.
C22_Witness ==
    /\ resp.op \in StatusOps
    /\ resp.code = 200
    /\ \E d \in DOMAIN drivers :
          /\ drivers[d].is_online
          /\ drivers[d].last_status_change = budget + 1
          /\ ActiveAttendance(d) = {}

\* C23: a request answered with an error leaves the rides, drivers,
\* kilometer entries, attendance sessions and leave requests as they were.
C23_RejectedChangesNothing ==
    [][resp'.code # 200 => UNCHANGED tables]_vars

\* A request has just been refused while a leave request and a driver exist.
C23_Witness ==
    /\ resp.code \in {400, 403, 404, 500}
    /\ resp.op # "startup"
    /\ leave_requests # <<>>

\* C24: Cancel of an in_progress ride, PUT /rides/{id}/status with cancelled,
\* changes the ride's status and cancelled_at and nothing else: the ride's
\* KilometerEntry stays as it is and the drivers are unchanged.
C24_CancelInProgress ==
    [][resp'.op = "update_ride_status" =>
       \A r \in Ids(rides) :
          (update_ride_status(r, "cancelled") /\ rides[r].status = "in_progress")
          => /\ rides' = [rides EXCEPT ![r].status = "cancelled",
                                       ![r].cancelled_at = Some(utcnow)]
             /\ UNCHANGED <<km_entries, drivers, attendance, leave_requests>>]_vars

\* An in_progress ride has just been cancelled: its entry is still started
\* with no end_km.
C24_Witness ==
    /\ resp = Response("update_ride_status", 200, "Ride status updated successfully")
    /\ \E r \in Ids(rides), i \in Ids(km_entries) :
          /\ rides[r].status = "cancelled"
          /\ rides[r].cancelled_at = Some(utcnow)
          /\ rides[r].picked_up_at = Some(utcnow)
          /\ km_entries[i].ride_id = Some(r)
          /\ km_entries[i].status = "started"
          /\ km_entries[i].end_km = None

\* The dependency that gives a handler its current_user, by the handler's
\* name; "none" for a handler that declares no current_user and so answers
\* any caller, with or without a token.
current_user_dependency(op) ==
    CASE op \in {"create_driver", "create_manual_ride", "assign_ride_to_driver",
                 "review_leave_request"} -> "get_current_admin"
      [] op \in {"update_my_status", "update_my_status_body", "start_ride",
                 "complete_ride"} -> "get_current_driver"
      [] op \in {"create_leave_request", "get_leave_requests",
                 "get_leave_request"} -> "get_current_user"
      [] OTHER -> "none"

\* the step is a Start or a Complete of ride r called by the driver of r
ByDriverOf(r) ==
    \E u \in DriverUsers, km \in KmInputs :
        /\ start_ride(u, r, km) \/ complete_ride(u, r, km)
        /\ \E d \in DriversOfUser(u) : rides[r].driver_id = Some(d)

\* C25: a step that changes a ride's status or driver_id is a request that
\* only an administrator can make, or a Start or Complete by the ride's
\* driver.
C25_OnlyAdminOrAssignedDriver ==
    [][\A r \in Ids(rides) :
          (rides'[r].status # rides[r].status \/ rides'[r].driver_id # rides[r].driver_id)
          => \/ current_user_dependency(resp'.op) = "get_current_admin"
             \/ ByDriverOf(r)]_vars

\* C26: Review of a leave request that is not pending is refused and leaves
\* the request as it was.
C26_ReviewOnlyPending ==
    [][\A r \in Ids(leave_requests), review \in LeaveReviews :
          ( /\ review_leave_request(AdminUser, r, review)
            /\ leave_requests[r].status # "pending" )
          => /\ resp'.code # 200
             /\ leave_requests' = leave_requests]_vars

\* C27: a pending leave request has reviewed_at, reviewed_by and comments
\* unset.
C27_PendingHasNoReview ==
    \A r \in Ids(leave_requests) :
        leave_requests[r].status = "pending"
        => /\ leave_requests[r].reviewed_at = None
           /\ leave_requests[r].reviewed_by = None
           /\ leave_requests[r].comments = None

\* C28: Get of a leave request of another driver by a user that is no
\* administrator is answered Forbidden, and List by such a user returns only
\* requests of the user's own driver row.
C28_NoForeignLeaveRequest ==
    [][\A u \in {x \in Users : x.role # "admin"} :
          /\ \A r \in Ids(leave_requests) :
                ( /\ get_leave_request(u, r)
                  /\ leave_requests[r].driver_id \notin DriversOfUser(u.id) )
                => resp'.code = 403
          /\ \A d \in {None} \cup {Some(x) : x \in DriverIds} :
                (get_leave_requests(u, d) /\ resp'.code = 200)
                => \A i \in resp'.rows :
                      leave_requests[i].driver_id \in DriversOfUser(u.id)]_vars

\* the rows a step added to leave_requests
NewLeaveRequests ==
    {leave_requests'[i] : i \in Ids(leave_requests') \ Ids(leave_requests)}

\* C29: Submit adds one pending LeaveRequest with no review fields; for a
\* caller that is no administrator its driver_id is the caller's own driver
\* row, whatever driver_id was supplied; for an administrator it is the
\* supplied driver_id, and Submit for an existing driver is accepted.
C29_SubmitForSuppliedDriver ==
    [][resp'.op = "create_leave_request" =>
       \A u \in Users, x \in LeaveDriverInputs :
          create_leave_request(u, x) =>
            /\ resp'.code = 200 =>
                 /\ Cardinality(NewLeaveRequests) = 1
                 /\ Len(leave_requests') = Len(leave_requests) + 1
                 /\ \A new \in NewLeaveRequests :
                       /\ new.status = "pending"
                       /\ new.reviewed_at = None
                       /\ new.reviewed_by = None
                       /\ new.comments = None
                       /\ u.role # "admin" => new.driver_id \in DriversOfUser(u.id)
                       /\ u.role = "admin" => x = Some(new.driver_id)
            /\ (u.role = "admin" /\ x # None /\ x[1] \in DOMAIN drivers)
                 => resp'.code = 200]_vars

\* C29 as amended: for an administrator the created request's driver_id is
\* the driver row of the user whose id was supplied as driver_id; a supplied
\* id that is no driver's user id is refused.
C29_SubmitForSuppliedUser ==
    [][resp'.op = "create_leave_request" =>
       IF resp'.code = 200
       THEN /\ Len(leave_requests') = Len(leave_requests) + 1
            /\ LET new == leave_requests'[Len(leave_requests')]
               IN /\ leave_requests' = Append(leave_requests, new)
                  /\ new.status = "pending"
                  /\ new.reviewed_at = None
                  /\ new.reviewed_by = None
                  /\ new.comments = None
                  /\ \A u \in Users, x \in LeaveDriverInputs :
                       \/ IF u.role = "admin"
                          THEN x # None /\ new.driver_id \in DriversOfUser(x[1])
                          ELSE new.driver_id \in DriversOfUser(u.id)
                       \/ ~create_leave_request(u, x)
       ELSE \A x \in LeaveDriverInputs :
               (x # None /\ DriversOfUser(x[1]) = {})
               => \/ resp'.code = 404 /\ UNCHANGED tables
                  \/ ~create_leave_request(AdminUser, x)]_vars

\* Submits have just been accepted: a request made by a driver and a request
\* made for a driver by the administrator are pending.
C29_Witness ==
    /\ resp.op = "create_leave_request"
    /\ resp.code = 200
    /\ Len(leave_requests) >= 2
    /\ \A r \in Ids(leave_requests) :
          /\ leave_requests[r].status = "pending"
          /\ leave_requests[r].driver_id \in DOMAIN drivers

\* C30: every KilometerEntry, AttendanceSession and LeaveRequest has the id
\* of an existing driver as its driver_id (a request to create one for an
\* unknown driver is refused).
C30_DriverIdsExist ==
    /\ \A i \in Ids(km_entries) : km_entries[i].driver_id \in DOMAIN drivers
    /\ \A i \in Ids(attendance) : attendance[i].driver_id \in DOMAIN drivers
    /\ \A i \in Ids(leave_requests) : leave_requests[i].driver_id \in DOMAIN drivers

\* C31: Request for an unknown passenger fails with NotFound (404) and
\* creates no ride; Request for a known passenger creates one ride in status
\* requested with no driver_id.
C31_RequestChecksPassenger ==
    [][resp'.op = "create_ride" =>
       \A p \in PassengerInputs :
          create_ride(p) =>
             IF p \notin PassengerIds
             THEN resp'.code = 404 /\ rides' = rides
             ELSE /\ resp'.code = 200
                  /\ Len(rides') = Len(rides) + 1
                  /\ rides'[Len(rides')].status = "requested"
                  /\ rides'[Len(rides')].driver_id = None]_vars

\* C32: CloseEntry fails with NotFound (404) when the entry it names is not
\* a started entry: closing an unknown or an already completed entry leaves
\* every entry's end_km and every driver's current_km_reading as they were.
C32_CloseRefusesCompletedEntry ==
    [][resp'.op = "complete_km_entry" =>
       \A e \in IdInputs(km_entries), km \in KmInputs :
          (/\ complete_km_entry(e, km)
           /\ e \in Ids(km_entries) => km_entries[e].status # "started")
          => /\ resp'.code = 404
             /\ km_entries' = km_entries
             /\ drivers' = drivers]_vars

\* The handler's queries on the rides and drivers tables, in the order its
\* code runs them.  No query asks for a lock (there is no with_for_update)
\* and no handler waits for another.
QueryOrder(op) ==
    IF op = "assign_ride_to_driver" THEN <<"ride", "driver">>
    ELSE IF op \in {"start_ride", "complete_ride"} THEN <<"driver", "ride">>
    ELSE IF op = "update_ride_status" THEN <<"ride">>
    ELSE <<"driver">>

\* the rows the request of worker w has loaded, in the order it loaded them
Acquired(w) ==
    IF sess[w].pc = "idle" THEN <<>>
    ELSE LET order == QueryOrder(sess[w].op)
         IN [i \in {j \in DOMAIN order : sess[w][order[j]] # None} |-> order[i]]

\* the requests of w1 and w2 overlap: one ran its queries while the other
\* was between its queries and its commit
Overlapping(w1, w2) ==
    /\ w1 # w2
    /\ sess[w1].pc # "idle"
    /\ sess[w2].pc # "idle"
    /\ sess[w1].req \in sess[w2].overlaps \/ sess[w2].req \in sess[w1].overlaps

\* C33: Assign, Start and Complete acquire the ride and the driver in one
\* fixed order: two overlapping requests among them that both hold a ride
\* and a driver took them in the same order.
C33_SameAcquireOrder ==
    \A w1, w2 \in Workers :
        ( /\ Overlapping(w1, w2)
          /\ {sess[w1].op, sess[w2].op}
                \subseteq {"assign_ride_to_driver", "start_ride", "complete_ride"}
          /\ Len(Acquired(w1)) = 2
          /\ Len(Acquired(w2)) = 2 )
        => Acquired(w1) = Acquired(w2)

\* the started entries opened for ride r by the driver the ride names
StartedEntriesOfRideDriver(r) ==
    {i \in StartedEntriesOfRide(r) : Some(km_entries[i].driver_id) = rides[r].driver_id}

\* C34: every ride in status in_progress has exactly one started
\* KilometerEntry whose ride_id is that ride and whose driver_id is the
\* ride's driver_id.
C34_InProgressHasOneStartedEntry ==
    \A r \in Ids(rides) :
        rides[r].status = "in_progress"
        => /\ Cardinality(StartedEntriesOfRide(r)) = 1
           /\ StartedEntriesOfRideDriver(r) = StartedEntriesOfRide(r)

\* total_rides of driver d's row when it was inserted
InitialTotalRides(d) == IF d = SeedDriver THEN SeedTotalRides ELSE 0

\* the rides of driver d that have reached status completed
CompletedRides(d) ==
    {r \in Ids(rides) : rides[r].driver_id = Some(d) /\ rides[r].completed_at # None}

\* C35: for every driver, total_rides minus its initial value is the number
\* of the driver's rides that have reached status completed, through
\* whichever operation they became completed.
C35_TotalRidesCountsCompleted ==
    \A d \in DOMAIN drivers :
        drivers[d].total_rides - InitialTotalRides(d) = Cardinality(CompletedRides(d))

\* the statuses a ride passes after it was assigned
AssignedOrLater == {"assigned", "accepted", "picking_up", "in_progress", "completed"}

\* C36: a ride's transition timestamps agree with its status: assigned or
\* later has assigned_at, in_progress has picked_up_at, completed has
\* completed_at, cancelled has cancelled_at, and a requested ride has none
\* of the four.
C36_TimestampsAgreeWithStatus ==
    \A r \in Ids(rides) :
        LET ride == rides[r] IN
        /\ ride.status \in AssignedOrLater => ride.assigned_at # None
        /\ ride.status = "in_progress" => ride.picked_up_at # None
        /\ ride.status = "completed" => ride.completed_at # None
        /\ ride.status = "cancelled" => ride.cancelled_at # None
        /\ ride.status = "requested"
           => /\ ride.assigned_at = None
              /\ ride.picked_up_at = None
              /\ ride.completed_at = None
              /\ ride.cancelled_at = None

\* C37: manual ride creation creates a ride, in status assigned with
\* driver_id set and assigned_at stamped, only when the passenger exists and
\* the driver exists and is online; it answers 400 for a missing field, 404
\* for an unknown passenger or driver and 400 for an offline driver, and
\* then creates no ride.
C37_ManualRideContract ==
    [][resp'.op = "create_manual_ride" =>
       \A body \in ManualRideBodies :
          create_manual_ride(body) =>
             IF ManualRideFields \ DOMAIN body # {}
             THEN resp'.code = 400 /\ rides' = rides
             ELSE IF body.passenger_id \notin PassengerIds \/ body.driver_id \notin DOMAIN drivers
             THEN resp'.code = 404 /\ rides' = rides
             ELSE IF ~drivers[body.driver_id].is_online
             THEN resp'.code = 400 /\ rides' = rides
             ELSE /\ resp'.code = 200
                  /\ Len(rides') = Len(rides) + 1
                  /\ rides'[Len(rides')].status = "assigned"
                  /\ rides'[Len(rides')].driver_id = Some(body.driver_id)
                  /\ rides'[Len(rides')].assigned_at # None]_vars

====
